---- MODULE Spec2Model ----
(***************************************************************************)
(* Model of sandman_main/controls.py: the Control state machine that       *)
(* drives one part of the bed.  A caller records a request with            *)
(* set_desired_state and polls the machine with process, which reads the   *)
(* Timer and appends notification strings to the caller's sequence.        *)
(***************************************************************************)
EXTENDS Integers, Sequences, FiniteSets, TLC

\* ---------------------------------------------------------------- bounds
\* Largest timer reading of the model (milliseconds).
MaxTime == 4
\* Largest moving / cool down duration a control is constructed with.
MaxDur == 2
\* Largest number of entries the caller's notification sequence holds.
MaxNotes == 4
\* Largest time between two process calls of a caller that polls regularly.
MaxGap == 2

\* ------------------------------------------------------- Control.State
IDLE == "IDLE"
MOVE_UP == "MOVE_UP"
MOVE_DOWN == "MOVE_DOWN"
COOL_DOWN == "COOL_DOWN"

State == {IDLE, MOVE_UP, MOVE_DOWN, COOL_DOWN}

\* Control.Name: a well known Control.Type value or any other string.
Names == {"legs", "hoist"}

VARIABLES
    state,                  \* self.__state
    desired_state,          \* self.__desired_state
    state_start_time,       \* self.__state_start_time: <<>> until assigned
    name,                   \* self.__name
    moving_duration_ms,     \* self.__moving_duration_ms
    cool_down_duration_ms,  \* self.__cool_down_duration_ms
    now,                    \* the reading of self.__timer
    notifications,          \* the sequence the caller passes to process
    raised,                 \* exception that escaped a call, "none" if none
    last                    \* the last call made on the control

vars == <<state, desired_state, state_start_time, name, moving_duration_ms,
          cool_down_duration_ms, now, notifications, raised, last>>

\* ------------------------------------------------------------- the timer
\* timing.Timer.get_current_time
get_current_time == now

\* timing.Timer.get_time_since_ms
get_time_since_ms(past) == get_current_time - past

\* ------------------------------------------------------ the control object
\* The mutable part of the object together with the caller's sequence.
Self ==
    [state |-> state,
     desired_state |-> desired_state,
     state_start_time |-> state_start_time,
     notifications |-> notifications,
     raised |-> raised]

\* Reading self.__state_start_time: an attribute that was never assigned
\* raises AttributeError.
HasStartTime(c) == c.state_start_time # <<>>

StartTime(c) == c.state_start_time[1]

\* The three notification texts of __set_state.
RaisingText == "Raising the " \o name \o "."

LoweringText == "Lowering the " \o name \o "."

StoppedText == name \o " stopped."

\* set_state with the raise and lower texts exchanged.
set_state_swapped(c, s) ==
    [c EXCEPT
        !.notifications =
            CASE s = MOVE_UP -> Append(@, LoweringText)
              [] s = MOVE_DOWN -> Append(@, RaisingText)
              [] s = COOL_DOWN -> Append(@, StoppedText)
              [] OTHER -> @,
        !.state = s,
        !.state_start_time = <<get_current_time>>]

\* set_state that also announces the return to idle.
set_state_idle_text(c, s) ==
    [c EXCEPT
        !.notifications =
            CASE s = MOVE_UP -> Append(@, RaisingText)
              [] s = MOVE_DOWN -> Append(@, LoweringText)
              [] s = COOL_DOWN -> Append(@, StoppedText)
              [] OTHER -> Append(@, name \o " idle."),
        !.state = s,
        !.state_start_time = <<get_current_time>>]


\* set_state that keeps the start time when one motion follows another.
set_state_reversal_keeps_start(c, s) ==
    [c EXCEPT
        !.notifications =
            CASE s = MOVE_UP -> Append(@, RaisingText)
              [] s = MOVE_DOWN -> Append(@, LoweringText)
              [] s = COOL_DOWN -> Append(@, StoppedText)
              [] OTHER -> @,
        !.state = s,
        !.state_start_time =
            IF c.state \in {MOVE_UP, MOVE_DOWN} /\ s \in {MOVE_UP, MOVE_DOWN}
            THEN @
            ELSE <<get_current_time>>]


\* set_state that does not restart the dwell time on entry to COOL_DOWN.
set_state_cool_down_keeps_start(c, s) ==
    [c EXCEPT
        !.notifications =
            CASE s = MOVE_UP -> Append(@, RaisingText)
              [] s = MOVE_DOWN -> Append(@, LoweringText)
              [] s = COOL_DOWN -> Append(@, StoppedText)
              [] OTHER -> @,
        !.state = s,
        !.state_start_time =
            IF s = COOL_DOWN THEN @ ELSE <<get_current_time>>]

\* Control.__set_state
set_state(c, s) ==
    [c EXCEPT
        !.notifications =
            CASE s = MOVE_UP -> Append(@, RaisingText)
              [] s = MOVE_DOWN -> Append(@, LoweringText)
              [] s = COOL_DOWN -> Append(@, StoppedText)
              [] OTHER -> @,
        !.state = s,
        !.state_start_time = <<get_current_time>>]


\* process_idle_state that measures the dwell time before it starts a motion.
process_idle_state_reads_elapsed(c) ==
    IF c.desired_state = IDLE
    THEN c
    ELSE IF c.desired_state # MOVE_UP /\ c.desired_state # MOVE_DOWN
         THEN [c EXCEPT !.desired_state = IDLE]
         ELSE IF ~HasStartTime(c)
              THEN [c EXCEPT !.raised = "AttributeError"]
              ELSE IF get_time_since_ms(StartTime(c)) < 0
                   THEN c
                   ELSE set_state(c, c.desired_state)

\* Control.__process_idle_state
process_idle_state(c) ==
    IF c.desired_state = IDLE
    THEN c
    ELSE IF c.desired_state # MOVE_UP /\ c.desired_state # MOVE_DOWN
         THEN [c EXCEPT !.desired_state = IDLE]
         ELSE set_state(c, c.desired_state)

\* process_moving_states in which a stop request goes straight to idle.
process_moving_states_stop_idle(c) ==
    IF c.desired_state # c.state /\ c.desired_state \in {MOVE_UP, MOVE_DOWN}
    THEN set_state(c, c.desired_state)
    ELSE IF c.desired_state # c.state /\ c.desired_state = IDLE
    THEN set_state(c, IDLE)
    ELSE IF ~HasStartTime(c)
    THEN [c EXCEPT !.raised = "AttributeError"]
    ELSE IF get_time_since_ms(StartTime(c)) < moving_duration_ms
    THEN c
    ELSE set_state([c EXCEPT !.desired_state = IDLE], COOL_DOWN)

\* process_moving_states that keeps the request after the automatic stop.
process_moving_states_keep_desired(c) ==
    IF c.desired_state # c.state /\ c.desired_state \in {MOVE_UP, MOVE_DOWN}
    THEN set_state(c, c.desired_state)
    ELSE IF c.desired_state # c.state /\ c.desired_state = IDLE
    THEN set_state(c, COOL_DOWN)
    ELSE IF ~HasStartTime(c)
    THEN [c EXCEPT !.raised = "AttributeError"]
    ELSE IF get_time_since_ms(StartTime(c)) < moving_duration_ms
    THEN c
    ELSE set_state(c, COOL_DOWN)

\* process_moving_states that tests the timeout before the request.
process_moving_states_timeout_first(c) ==
    IF ~HasStartTime(c)
    THEN [c EXCEPT !.raised = "AttributeError"]
    ELSE IF get_time_since_ms(StartTime(c)) >= moving_duration_ms
    THEN set_state([c EXCEPT !.desired_state = IDLE], COOL_DOWN)
    ELSE IF c.desired_state # c.state /\ c.desired_state \in {MOVE_UP, MOVE_DOWN}
    THEN set_state(c, c.desired_state)
    ELSE IF c.desired_state # c.state /\ c.desired_state = IDLE
    THEN set_state(c, COOL_DOWN)
    ELSE c


\* process_moving_states without the automatic stop.
process_moving_states_no_timeout(c) ==
    IF c.desired_state # c.state /\ c.desired_state \in {MOVE_UP, MOVE_DOWN}
    THEN set_state(c, c.desired_state)
    ELSE IF c.desired_state # c.state /\ c.desired_state = IDLE
    THEN set_state(c, COOL_DOWN)
    ELSE c


\* process_moving_states with the comparison of the timeout inverted.
process_moving_states_inverted(c) ==
    IF c.desired_state # c.state /\ c.desired_state \in {MOVE_UP, MOVE_DOWN}
    THEN set_state(c, c.desired_state)
    ELSE IF c.desired_state # c.state /\ c.desired_state = IDLE
    THEN set_state(c, COOL_DOWN)
    ELSE IF ~HasStartTime(c)
    THEN [c EXCEPT !.raised = "AttributeError"]
    ELSE IF get_time_since_ms(StartTime(c)) > moving_duration_ms
    THEN c
    ELSE set_state([c EXCEPT !.desired_state = IDLE], COOL_DOWN)


\* process_moving_states that stops on any request other than the current
\* direction.
process_moving_states_reversal_stops(c) ==
    IF c.desired_state # c.state
    THEN set_state(c, COOL_DOWN)
    ELSE IF ~HasStartTime(c)
    THEN [c EXCEPT !.raised = "AttributeError"]
    ELSE IF get_time_since_ms(StartTime(c)) < moving_duration_ms
    THEN c
    ELSE set_state([c EXCEPT !.desired_state = IDLE], COOL_DOWN)

\* Control.__process_moving_states
process_moving_states(c) ==
    IF c.desired_state # c.state /\ c.desired_state \in {MOVE_UP, MOVE_DOWN}
    THEN set_state(c, c.desired_state)
    ELSE IF c.desired_state # c.state /\ c.desired_state = IDLE
    THEN set_state(c, COOL_DOWN)
    ELSE IF ~HasStartTime(c)
    THEN [c EXCEPT !.raised = "AttributeError"]
    ELSE IF get_time_since_ms(StartTime(c)) < moving_duration_ms
    THEN c
    ELSE set_state([c EXCEPT !.desired_state = IDLE], COOL_DOWN)

\* process_cool_down_state that lets a pending request end the cool down.
process_cool_down_state_request(c) ==
    IF ~HasStartTime(c)
    THEN [c EXCEPT !.raised = "AttributeError"]
    ELSE IF get_time_since_ms(StartTime(c)) < cool_down_duration_ms
            /\ c.desired_state = IDLE
    THEN c
    ELSE set_state([c EXCEPT !.desired_state = IDLE], IDLE)

\* process_cool_down_state that keeps the request made during cool down.
process_cool_down_state_keep_desired(c) ==
    IF ~HasStartTime(c)
    THEN [c EXCEPT !.raised = "AttributeError"]
    ELSE IF get_time_since_ms(StartTime(c)) < cool_down_duration_ms
    THEN c
    ELSE set_state(c, IDLE)

\* process_cool_down_state that restarts the cool down on a pending request.
process_cool_down_state_restart(c) ==
    IF ~HasStartTime(c)
    THEN [c EXCEPT !.raised = "AttributeError"]
    ELSE IF c.desired_state # IDLE
    THEN [c EXCEPT !.state_start_time = <<get_current_time>>]
    ELSE IF get_time_since_ms(StartTime(c)) < cool_down_duration_ms
    THEN c
    ELSE set_state([c EXCEPT !.desired_state = IDLE], IDLE)


\* process_cool_down_state that waits for the moving duration instead.
process_cool_down_state_moving_duration(c) ==
    IF ~HasStartTime(c)
    THEN [c EXCEPT !.raised = "AttributeError"]
    ELSE IF get_time_since_ms(StartTime(c)) < moving_duration_ms
    THEN c
    ELSE set_state([c EXCEPT !.desired_state = IDLE], IDLE)

\* Control.__process_cool_down_state
process_cool_down_state(c) ==
    IF ~HasStartTime(c)
    THEN [c EXCEPT !.raised = "AttributeError"]
    ELSE IF get_time_since_ms(StartTime(c)) < cool_down_duration_ms
    THEN c
    ELSE set_state([c EXCEPT !.desired_state = IDLE], IDLE)


\* process that hands COOL_DOWN to the handler of the moving states.
process_cool_down_as_moving(c) ==
    CASE c.state = IDLE -> process_idle_state(c)
      [] c.state \in {MOVE_UP, MOVE_DOWN, COOL_DOWN} -> process_moving_states(c)
      [] OTHER -> [c EXCEPT !.raised = "AssertionError"]

\* Control.process
process(c) ==
    CASE c.state = IDLE -> process_idle_state(c)
      [] c.state \in {MOVE_UP, MOVE_DOWN} -> process_moving_states(c)
      [] c.state = COOL_DOWN -> process_cool_down_state(c)
      [] OTHER -> [c EXCEPT !.raised = "AssertionError"]

\* set_desired_state without the cool down guard.
set_desired_state_unguarded(c, s) ==
    [c EXCEPT !.desired_state = s]

\* set_desired_state that re-arms the dwell time on every request.
set_desired_state_stamps(c, s) ==
    IF s = COOL_DOWN
    THEN c
    ELSE [c EXCEPT !.desired_state = s,
                   !.state_start_time = <<get_current_time>>]


\* set_desired_state that holds on to a stop request made while moving.
set_desired_state_sticky_stop(c, s) ==
    IF s = COOL_DOWN
    THEN c
    ELSE IF c.desired_state = IDLE /\ c.state \in {MOVE_UP, MOVE_DOWN}
         THEN c
         ELSE [c EXCEPT !.desired_state = s]

\* Control.set_desired_state
set_desired_state(c, s) ==
    IF s = COOL_DOWN
    THEN c
    ELSE [c EXCEPT !.desired_state = s]

\* ------------------------------------------------------------ behaviour
\* What a call found: the object and the timer reading at the call.
Pre == [self |-> Self, now |-> now]


\* __init__ that starts with a raise request already recorded.
Init_raise_requested ==
    /\ state = IDLE
    /\ desired_state = MOVE_UP
    /\ state_start_time = <<>>
    /\ name \in Names
    /\ moving_duration_ms \in 1..MaxDur
    /\ cool_down_duration_ms \in 1..MaxDur
    /\ now = 0
    /\ notifications = <<>>
    /\ raised = "none"
    /\ last = [op |-> "__init__", arg |-> IDLE,
               pre |-> [self |-> [state |-> IDLE, desired_state |-> IDLE,
                                  state_start_time |-> <<>>,
                                  notifications |-> <<>>, raised |-> "none"],
                        now |-> 0]]

\* Control.__init__, for any name and any positive durations.
Init ==
    /\ state = IDLE
    /\ desired_state = IDLE
    /\ state_start_time = <<>>
    /\ name \in Names
    /\ moving_duration_ms \in 1..MaxDur
    /\ cool_down_duration_ms \in 1..MaxDur
    /\ now = 0
    /\ notifications = <<>>
    /\ raised = "none"
    /\ last = [op |-> "__init__", arg |-> IDLE,
               pre |-> [self |-> [state |-> IDLE, desired_state |-> IDLE,
                                  state_start_time |-> <<>>,
                                  notifications |-> <<>>, raised |-> "none"],
                        now |-> 0]]

\* The result of a call becomes the object.
Becomes(c) ==
    /\ state' = c.state
    /\ desired_state' = c.desired_state
    /\ state_start_time' = c.state_start_time
    /\ notifications' = c.notifications
    /\ raised' = c.raised

\* The caller calls set_desired_state(s).
SetDesiredState(s) ==
    /\ raised = "none"
    /\ Becomes(set_desired_state(Self, s))
    /\ last' = [op |-> "set_desired_state", arg |-> s, pre |-> Pre]
    /\ UNCHANGED <<name, moving_duration_ms, cool_down_duration_ms, now>>

\* The caller calls process(notifications).
Process ==
    /\ raised = "none"
    /\ Len(process(Self).notifications) <= MaxNotes
    /\ Becomes(process(Self))
    /\ last' = [op |-> "process", arg |-> IDLE, pre |-> Pre]
    /\ UNCHANGED <<name, moving_duration_ms, cool_down_duration_ms, now>>

\* The timer advances by one millisecond.
Tick ==
    /\ now < MaxTime
    /\ now' = now + 1
    /\ UNCHANGED <<state, desired_state, state_start_time, name,
                   moving_duration_ms, cool_down_duration_ms, notifications,
                   raised, last>>

Next ==
    \/ \E s \in State : SetDesiredState(s)
    \/ Process
    \/ Tick

Spec == Init /\ [][Next]_vars

TypeOK ==
    /\ state \in State
    /\ desired_state \in State
    /\ now \in 0..MaxTime
    /\ Len(notifications) <= MaxNotes

\* ------------------------------------------------------------ properties
Moving == {MOVE_UP, MOVE_DOWN}

\* What the last call found.
pre == last.pre.self

\* The dwell time the last call measured (it found state_start_time set).
PreElapsed == last.pre.now - pre.state_start_time[1]

Processed == last.op = "process"

\* The text __set_state appends on entry to s.
TextOf(s) ==
    CASE s = MOVE_UP -> RaisingText
      [] s = MOVE_DOWN -> LoweringText
      [] s = COOL_DOWN -> StoppedText

\* C1: cool down cannot be left early.  A process call that finds COOL_DOWN
\* with less than cool_down_duration_ms elapsed leaves COOL_DOWN, whatever
\* the desired state is; COOL_DOWN is left only by a process call that
\* measures at least cool_down_duration_ms, and only to IDLE; the time it is
\* measured from is the time COOL_DOWN was entered and no call moves it
\* while the control stays in COOL_DOWN.
C1_CoolDownNotShortened ==
    /\ (Processed /\ pre.state = COOL_DOWN
            /\ PreElapsed < cool_down_duration_ms)
        => state = COOL_DOWN
    /\ (pre.state = COOL_DOWN /\ state # COOL_DOWN)
        => /\ Processed
           /\ PreElapsed >= cool_down_duration_ms
           /\ state = IDLE
    /\ (pre.state = COOL_DOWN /\ state = COOL_DOWN)
        => state_start_time = pre.state_start_time
    /\ (pre.state # COOL_DOWN /\ state = COOL_DOWN)
        => state_start_time = <<last.pre.now>>

\* A process call found COOL_DOWN unfinished with a moving request pending
\* and left the control in COOL_DOWN.
C1_Witness ==
    /\ Processed
    /\ pre.state = COOL_DOWN
    /\ pre.desired_state \in Moving
    /\ PreElapsed < cool_down_duration_ms
    /\ PreElapsed > 0
    /\ state = COOL_DOWN

\* The state changes of the machine.
AllowedChanges ==
    {<<IDLE, MOVE_UP>>, <<IDLE, MOVE_DOWN>>,
     <<MOVE_UP, MOVE_DOWN>>, <<MOVE_DOWN, MOVE_UP>>,
     <<MOVE_UP, COOL_DOWN>>, <<MOVE_DOWN, COOL_DOWN>>,
     <<COOL_DOWN, IDLE>>}

\* C2: every step that changes state makes one of the seven changes
\* IDLE->MOVE_UP, IDLE->MOVE_DOWN, MOVE_UP<->MOVE_DOWN, MOVE_*->COOL_DOWN,
\* COOL_DOWN->IDLE.
C2_OnlyAllowedChanges ==
    [][state' # state => <<state, state'>> \in AllowedChanges]_vars

\* A stop request while moving up was processed and led to COOL_DOWN.
C2_Witness ==
    /\ Processed
    /\ pre.state = MOVE_UP
    /\ pre.desired_state = IDLE
    /\ state = COOL_DOWN

\* C3: a process call that finds a moving state S with desired_state = S
\* changes nothing and appends nothing before moving_duration_ms has
\* elapsed; from then on it enters COOL_DOWN, appends exactly
\* "<name> stopped." and sets desired_state to IDLE.
C3_MovingTimeout ==
    (Processed /\ pre.state \in Moving /\ pre.desired_state = pre.state)
        => IF PreElapsed < moving_duration_ms
           THEN /\ state = pre.state
                /\ desired_state = pre.desired_state
                /\ notifications = pre.notifications
           ELSE /\ state = COOL_DOWN
                /\ desired_state = IDLE
                /\ notifications = Append(pre.notifications, StoppedText)

\* The automatic stop happened.
C3_Witness ==
    /\ Processed
    /\ pre.state \in Moving
    /\ pre.desired_state = pre.state
    /\ PreElapsed >= moving_duration_ms
    /\ state = COOL_DOWN

\* C4: a process call that finds one moving state and the other one
\* requested switches to the requested state and appends its one text; one
\* that finds a moving state and IDLE requested enters COOL_DOWN with the
\* stopped text; both whatever the dwell time is.
C4_ImmediateOverride ==
    /\ (Processed /\ pre.state \in Moving
            /\ pre.desired_state \in Moving \ {pre.state})
        => /\ state = pre.desired_state
           /\ notifications = Append(pre.notifications, TextOf(pre.desired_state))
    /\ (Processed /\ pre.state \in Moving /\ pre.desired_state = IDLE)
        => /\ state = COOL_DOWN
           /\ notifications = Append(pre.notifications, StoppedText)

\* A reversal was processed after the moving duration had already passed.
C4_Witness ==
    /\ Processed
    /\ pre.state = MOVE_UP
    /\ pre.desired_state = MOVE_DOWN
    /\ PreElapsed > moving_duration_ms
    /\ state = MOVE_DOWN

\* C5: a process call that finds IDLE with MOVE_UP (MOVE_DOWN) requested
\* enters that state, appends exactly "Raising the <name>." ("Lowering the
\* <name>.") and keeps desired_state; one that finds IDLE with IDLE
\* requested changes nothing.
C5_IdleStart ==
    /\ (Processed /\ pre.state = IDLE /\ pre.desired_state = MOVE_UP)
        => /\ state = MOVE_UP
           /\ desired_state = MOVE_UP
           /\ notifications = Append(pre.notifications, "Raising the " \o name \o ".")
    /\ (Processed /\ pre.state = IDLE /\ pre.desired_state = MOVE_DOWN)
        => /\ state = MOVE_DOWN
           /\ desired_state = MOVE_DOWN
           /\ notifications = Append(pre.notifications, "Lowering the " \o name \o ".")
    /\ (Processed /\ pre.state = IDLE /\ pre.desired_state = IDLE)
        => /\ state = IDLE
           /\ desired_state = IDLE
           /\ notifications = pre.notifications
           /\ state_start_time = pre.state_start_time

\* A lower request was processed from IDLE.
C5_Witness ==
    /\ Processed
    /\ pre.state = IDLE
    /\ pre.desired_state = MOVE_DOWN
    /\ state = MOVE_DOWN
    /\ Len(notifications) = Len(pre.notifications) + 1

\* C6: no motion starts during cool down and a request made during it is
\* dropped.  COOL_DOWN is never followed by a moving state; the process call
\* that takes COOL_DOWN to IDLE leaves desired_state = IDLE; and from IDLE
\* with desired_state = IDLE the control stays in IDLE, desired_state
\* leaving IDLE only by set_desired_state(MOVE_UP) or (MOVE_DOWN).
C6_RequestDiscarded ==
    /\ []((Processed /\ pre.state = COOL_DOWN /\ state = IDLE)
            => desired_state = IDLE)
    /\ [][state = COOL_DOWN => state' \notin Moving]_vars
    /\ [][(state = IDLE /\ desired_state = IDLE)
            => /\ state' = IDLE
               /\ desired_state' # IDLE
                    => /\ last'.op = "set_desired_state"
                       /\ last'.arg \in Moving
                       /\ desired_state' = last'.arg]_vars

\* The cool down ended while a moving request made during it was pending,
\* and the request is gone.
C6_Witness ==
    /\ Processed
    /\ pre.state = COOL_DOWN
    /\ pre.desired_state \in Moving
    /\ state = IDLE
    /\ desired_state = IDLE

\* C7: desired_state is never COOL_DOWN, and set_desired_state(COOL_DOWN)
\* leaves desired_state as it found it.
C7_DesiredNeverCoolDown ==
    /\ desired_state \in {IDLE, MOVE_UP, MOVE_DOWN}
    /\ (last.op = "set_desired_state" /\ last.arg = COOL_DOWN)
        => desired_state = pre.desired_state

\* set_desired_state(COOL_DOWN) was called over a recorded raise request.
C7_Witness ==
    /\ last.op = "set_desired_state"
    /\ last.arg = COOL_DOWN
    /\ pre.desired_state = MOVE_UP
    /\ desired_state = MOVE_UP

\* s is t with at most one entry appended.
AppendsAtMostOne(s, t) ==
    /\ Len(t) \in {Len(s), Len(s) + 1}
    /\ SubSeq(t, 1, Len(s)) = s

\* C8: the notification sequence only grows at its end, by at most one
\* entry per step; a process call appends exactly the text of the state it
\* enters when it enters MOVE_UP, MOVE_DOWN or COOL_DOWN and nothing when it
\* keeps the state or takes COOL_DOWN to IDLE.
C8_NotificationsAppendOnly ==
    /\ [][AppendsAtMostOne(notifications, notifications')]_vars
    /\ [](Processed =>
            IF state # pre.state /\ state \in {MOVE_UP, MOVE_DOWN, COOL_DOWN}
            THEN notifications = Append(pre.notifications, TextOf(state))
            ELSE notifications = pre.notifications)

\* A process call took COOL_DOWN to IDLE and left the earlier entries alone.
C8_Witness ==
    /\ Processed
    /\ pre.state = COOL_DOWN
    /\ state = IDLE
    /\ Len(pre.notifications) >= 2
    /\ notifications = pre.notifications

\* C9: set_desired_state changes neither state, state_start_time nor the
\* notifications, whatever its argument; state changes only in process.
C9_SetDesiredStateFrame ==
    /\ last.op = "set_desired_state"
        => /\ state = pre.state
           /\ state_start_time = pre.state_start_time
           /\ notifications = pre.notifications
           /\ raised = pre.raised
    /\ state # pre.state => Processed

\* A stop request was recorded while moving and nothing else changed.
C9_Witness ==
    /\ last.op = "set_desired_state"
    /\ last.arg = IDLE
    /\ pre.desired_state \in Moving
    /\ desired_state = IDLE
    /\ state \in Moving
    /\ state_start_time # <<now>>

\* process keeps being called and the timer keeps advancing.
LiveSpec == Spec /\ WF_vars(Tick) /\ WF_vars(Process)

\* Some request followed by a process call changes the state.
CanChange ==
    \E s \in State : process(set_desired_state(Self, s)).state # state

\* The cool down ends within the timer readings of the model.
EndsInTime ==
    /\ state = COOL_DOWN
    /\ StartTime(Self) + cool_down_duration_ms <= MaxTime

\* C10: under LiveSpec a control in COOL_DOWN eventually reaches IDLE,
\* whatever set_desired_state calls are interleaved, and no state is
\* terminal: outside COOL_DOWN some request followed by process changes the
\* state, and COOL_DOWN itself leads to IDLE.
C10_CoolDownEnds ==
    /\ [](state # COOL_DOWN => CanChange)
    /\ EndsInTime ~> state = IDLE

\* The cool down has ended although a request was pending.
C10_Witness ==
    /\ Processed
    /\ pre.state = COOL_DOWN
    /\ pre.desired_state # IDLE
    /\ last.pre.now = MaxTime
    /\ state = IDLE

\* No call has been made on the control since it was constructed.
JustConstructed == last.op = "__init__"

\* C11: right after construction, for every name and pair of durations,
\* state and desired_state are IDLE, and a process call made before any
\* set_desired_state call (the control has never changed state and nothing
\* is requested) changes no field and appends nothing.
C11_InitialIdle ==
    /\ [](JustConstructed
            => /\ state = IDLE
               /\ desired_state = IDLE
               /\ notifications = <<>>
               /\ process(Self) = Self)
    /\ [][(JustConstructed /\ last'.op = "process")
            => UNCHANGED <<state, desired_state, state_start_time,
                           notifications, raised>>]_vars

\* The first call on a control was process, made after the timer had
\* advanced, and it left the control as constructed.
C11_Witness ==
    /\ Processed
    /\ last.pre.now > 0
    /\ pre = [state |-> IDLE, desired_state |-> IDLE,
              state_start_time |-> <<>>, notifications |-> <<>>,
              raised |-> "none"]
    /\ Self = pre
    /\ name = "hoist"

\* ------------------------------------------------- the "legs" scenario
\* The timer readings at which the caller of the scenario acts.
ScenarioTimes == {4999, 5001, 7000, 7002}

\* Control("legs", timer, 5000, 2000) with the timer at 0.
ScenarioInit ==
    /\ state = IDLE
    /\ desired_state = IDLE
    /\ state_start_time = <<>>
    /\ name = "legs"
    /\ moving_duration_ms = 5000
    /\ cool_down_duration_ms = 2000
    /\ now = 0
    /\ notifications = <<>>
    /\ raised = "none"
    /\ last = [op |-> "__init__", arg |-> IDLE,
               pre |-> [self |-> [state |-> IDLE, desired_state |-> IDLE,
                                  state_start_time |-> <<>>,
                                  notifications |-> <<>>, raised |-> "none"],
                        now |-> 0]]

\* The timer advances to a later reading of the scenario.
Advance ==
    /\ \E t \in ScenarioTimes : t > now /\ now' = t
    /\ UNCHANGED <<state, desired_state, state_start_time, name,
                   moving_duration_ms, cool_down_duration_ms, notifications,
                   raised, last>>

ScenarioNext ==
    \/ \E s \in State : SetDesiredState(s)
    \/ Process
    \/ Advance

ScenarioSpec == ScenarioInit /\ [][ScenarioNext]_vars

\* The calls of the scenario, as the states they leave behind.
RaisedAtZero ==
    /\ Processed
    /\ last.pre.now = 0
    /\ pre.state = IDLE
    /\ pre.desired_state = MOVE_UP

StoppedAt5001 ==
    /\ Processed
    /\ last.pre.now = 5001
    /\ pre.state = MOVE_UP
    /\ pre.desired_state = MOVE_UP
    /\ pre.state_start_time = <<0>>
    /\ pre.notifications = <<"Raising the legs.">>

IdleAt7002 ==
    /\ Processed
    /\ last.pre.now = 7002
    /\ pre.state = COOL_DOWN
    /\ pre.state_start_time = <<5001>>
    /\ pre.notifications = <<"Raising the legs.", "legs stopped.">>

\* C12: in the scenario (name "legs", 5000 ms moving, 2000 ms cool down)
\* the process call at 0 after a raise request gives MOVE_UP and the
\* sequence <<"Raising the legs.">>; the process call at 5001 that finds
\* that motion still requested gives COOL_DOWN and appends "legs stopped.";
\* the process call at 7002 that finds that cool down gives IDLE with
\* desired_state IDLE and appends nothing.
C12_LegsScenario ==
    /\ RaisedAtZero
        => /\ state = MOVE_UP
           /\ state_start_time = <<0>>
           /\ notifications = Append(pre.notifications, "Raising the legs.")
    /\ StoppedAt5001
        => /\ state = COOL_DOWN
           /\ state_start_time = <<5001>>
           /\ notifications = <<"Raising the legs.", "legs stopped.">>
    /\ IdleAt7002
        => /\ state = IDLE
           /\ desired_state = IDLE
           /\ notifications = <<"Raising the legs.", "legs stopped.">>

\* The scenario has run to its end.
C12_Witness ==
    /\ IdleAt7002
    /\ state = IDLE
    /\ desired_state = IDLE
    /\ now = 7002
    /\ Len(notifications) = 2

\* The last call was a process call that reversed the direction of motion.
Reversed ==
    /\ Processed
    /\ pre.state \in Moving
    /\ state \in Moving \ {pre.state}

\* C13: a call changes state only if it is a process call, which then sets
\* state_start_time to the timer reading of that call, and
\* state_start_time changes in no other way.  After a reversal the
\* automatic stop is measured from the reversal: with the new direction
\* still requested, process keeps the control moving exactly while less
\* than moving_duration_ms has passed since the reversal.
C13_StartTimeStamped ==
    /\ state # pre.state
        => /\ Processed
           /\ state_start_time = <<last.pre.now>>
    /\ state_start_time # pre.state_start_time
        => /\ Processed
           /\ state # pre.state
    /\ (Reversed /\ desired_state = state)
        => (process(Self).state = state
                <=> now - last.pre.now < moving_duration_ms)

\* The control has been moving since its first motion began, for longer
\* than moving_duration_ms in total, because the caller reversed before the
\* timeout; a process call now leaves it moving.
C13_Witness ==
    /\ Reversed
    /\ pre.notifications = <<RaisingText>>
    /\ PreElapsed < moving_duration_ms
    /\ now - last.pre.now < moving_duration_ms
    /\ now - pre.state_start_time[1] > moving_duration_ms
    /\ state = MOVE_DOWN
    /\ notifications = <<RaisingText, LoweringText>>
    /\ process(Self) = Self

\* ------------------------------------------------ a caller that polls
\* The timer advances by at most MaxGap, once between two process calls.
Wait ==
    /\ last.op \in {"__init__", "process"}
    /\ last.pre.now = now
    /\ \E dt \in 1..MaxGap : now + dt <= MaxTime /\ now' = now + dt
    /\ UNCHANGED <<state, desired_state, state_start_time, name,
                   moving_duration_ms, cool_down_duration_ms, notifications,
                   raised, last>>

CadenceNext ==
    \/ \E s \in State : SetDesiredState(s)
    \/ Process
    \/ Wait

CadenceSpec == Init /\ [][CadenceNext]_vars

\* C14: when consecutive process calls are at most MaxGap apart, the
\* control is never in COOL_DOWN more than cool_down_duration_ms + MaxGap
\* after entering it, nor in one moving state more than
\* moving_duration_ms + MaxGap after entering it.
C14_WithinOneTick ==
    /\ state = COOL_DOWN
        => now - StartTime(Self) <= cool_down_duration_ms + MaxGap
    /\ state \in Moving
        => now - StartTime(Self) <= moving_duration_ms + MaxGap

\* The cool down is over but the next process call has not come yet: the
\* control has been in COOL_DOWN for one millisecond less than the bound.
C14_Witness ==
    /\ state = COOL_DOWN
    /\ cool_down_duration_ms > 1
    /\ now - StartTime(Self) >= cool_down_duration_ms
    /\ now - StartTime(Self) = cool_down_duration_ms + MaxGap - 1
    /\ Processed
    /\ pre.state = COOL_DOWN

\* A step that is no set_desired_state call.
NoRequestStep == last' = last \/ last'.op # "set_desired_state"

\* The control is at rest with nothing requested.
Settled == state = IDLE /\ desired_state = IDLE

\* The control waits for something outside the range of the model: a
\* timeout later than MaxTime, or room in a full notification sequence.
OutOfRange ==
    \/ /\ now = MaxTime
       /\ state \in Moving
       /\ desired_state = state
       /\ now - StartTime(Self) < moving_duration_ms
    \/ /\ now = MaxTime
       /\ state = COOL_DOWN
       /\ now - StartTime(Self) < cool_down_duration_ms
    \/ /\ Len(notifications) = MaxNotes
       /\ Len(process(Self).notifications) > MaxNotes

\* C15: under LiveSpec, if from some point on the caller makes no
\* set_desired_state call, the control ends in IDLE with desired_state
\* IDLE and stays there (unless the model runs out of timer readings or of
\* room for notifications first); a moving state is left only for the other
\* moving state or for COOL_DOWN, so a control that was moving gets there
\* through COOL_DOWN.
C15_RunsDownToIdle ==
    /\ <>[][NoRequestStep]_vars => <>[](Settled \/ OutOfRange)
    /\ [][(state \in Moving /\ state' # state)
            => state' \in Moving \cup {COOL_DOWN}]_vars

\* A motion that nobody stopped timed out, cooled down and ended in IDLE.
C15_Witness ==
    /\ Processed
    /\ pre.state = COOL_DOWN
    /\ pre.desired_state = IDLE
    /\ pre.state_start_time[1] >= moving_duration_ms
    /\ notifications = <<RaisingText, StoppedText>>
    /\ Settled
    /\ ~OutOfRange

\* C16: state_start_time is never read before it is assigned.  No call
\* raises AttributeError; in MOVE_UP, MOVE_DOWN and COOL_DOWN, where process
\* measures the dwell time, state_start_time is set; and in IDLE process
\* completes whether it is set or not.
C16_StartTimeSetBeforeRead ==
    /\ raised = "none"
    /\ state \in {MOVE_UP, MOVE_DOWN, COOL_DOWN} => HasStartTime(Self)
    /\ state = IDLE => process(Self).raised = "none"

\* The first motion of a control started from IDLE while state_start_time
\* was still unassigned.
C16_Witness ==
    /\ Processed
    /\ pre.state = IDLE
    /\ ~HasStartTime(pre)
    /\ state \in Moving
    /\ HasStartTime(Self)
    /\ raised = "none"

\* The last call was a process call that entered COOL_DOWN.
EnteredCoolDown ==
    /\ Processed
    /\ pre.state # COOL_DOWN
    /\ state = COOL_DOWN

\* C17: right after a process call that enters COOL_DOWN desired_state is
\* IDLE.  The call found either a stop request (desired_state already
\* IDLE) or the current direction still requested with the moving duration
\* over, in which case it set desired_state to IDLE.
C17_CoolDownStartsIdle ==
    EnteredCoolDown
        => /\ desired_state = IDLE
           /\ \/ pre.desired_state = IDLE
              \/ /\ pre.desired_state = pre.state
                 /\ PreElapsed >= moving_duration_ms

\* The automatic stop of a lowering motion cleared the lower request.
C17_Witness ==
    /\ EnteredCoolDown
    /\ pre.state = MOVE_DOWN
    /\ pre.desired_state = MOVE_DOWN
    /\ desired_state = IDLE

\* The outcome of process after the requests a and then b.
AfterRequests(a, b) ==
    process(set_desired_state(set_desired_state(Self, a), b))

\* C18: of the set_desired_state calls made between two process calls only
\* the last one with an argument other than COOL_DOWN counts: after the
\* requests a and then b, process gives what it gives after b alone (after
\* a alone if b is COOL_DOWN).  So a stop request overwritten by the current
\* direction before the timeout leaves process without any effect.
C18_LastRequestWins ==
    /\ \A a, b \in State :
            AfterRequests(a, b) =
                IF b # COOL_DOWN
                THEN process(set_desired_state(Self, b))
                ELSE process(set_desired_state(Self, a))
    /\ (/\ last.op = "set_desired_state"
        /\ state \in Moving
        /\ last.arg = state
        /\ now - StartTime(Self) < moving_duration_ms)
        => process(Self) = Self

\* A stop request made while moving was overwritten by the current
\* direction before any process call, and process will not act on it.
C18_Witness ==
    /\ last.op = "set_desired_state"
    /\ state \in Moving
    /\ last.arg = state
    /\ pre.desired_state = IDLE
    /\ desired_state = state
    /\ now - StartTime(Self) < moving_duration_ms
    /\ process(Self) = Self

\* C19: a "<name> stopped." entry is never the first entry of the sequence
\* and the entry right before it is always "Raising the <name>." or
\* "Lowering the <name>.", never another "<name> stopped.".
C19_StoppedFollowsMotion ==
    \A i \in 1..Len(notifications) :
        notifications[i] = name \o " stopped."
            => /\ i > 1
               /\ notifications[i - 1] \in {"Raising the " \o name \o ".",
                                           "Lowering the " \o name \o "."}

\* Two motions were made and stopped, one after the other.
C19_Witness ==
    /\ Len(notifications) = 4
    /\ notifications[2] = StoppedText
    /\ notifications[4] = StoppedText
    /\ notifications[3] = LoweringText
    /\ state = COOL_DOWN

\* C20: a process call makes at most one state change (one of the allowed
\* changes, with at most one entry appended), and, the durations being
\* positive, a second process call at the same timer reading with no
\* request in between changes no field and appends nothing.
C20_ProcessIdempotent ==
    /\ Processed
        => /\ state = pre.state \/ <<pre.state, state>> \in AllowedChanges
           /\ AppendsAtMostOne(pre.notifications, notifications)
    /\ process(process(Self)) = process(Self)
    /\ (Processed /\ now = last.pre.now) => process(Self) = Self

\* COOL_DOWN was entered at this timer reading and a further process call
\* at the same reading found and left the control as it is.
C20_Witness ==
    /\ Processed
    /\ now = last.pre.now
    /\ state = COOL_DOWN
    /\ state_start_time = <<now>>
    /\ now > 0
    /\ pre = Self
====
